---- MODULE Spec2Model ----
(***************************************************************************)
(* A model of difacto's asynchronous training core:                        *)
(*   - DiFacto::ProcessFile, the per-partition batch pipeline              *)
(*     (src/src/difacto.cc:127-202) with its Tracker<BatchJob>;            *)
(*   - DiFacto::RunScheduler / RunEpoch, the driver                        *)
(*     (src/src/difacto.cc:56-107) with the JobTracker;                    *)
(*   - SpMM::Times and SpMM::TransTimes (src/src/common/spmm.h), the       *)
(*     parallel kernels.                                                   *)
(* Each part has its own specification (SpecPF and FairPF, SpecSched and   *)
(* FairSched, SpecMM); the variables of the other parts stay idle.         *)
(***************************************************************************)
EXTENDS Integers, Sequences, FiniteSets, Bags, TLC

VARIABLES
  job,       \* the Job handed to ProcessFile: [type, epoch]
  nread,     \* batches the reader has yielded so far
  eof,       \* reader.Next() has returned false
  pc,        \* position of the ProcessFile thread
  feacnt,    \* the current batch's Push(kFeaCount): "none", "flight", "done"
  fc,        \* how many times so far counts were asked of the Localizer,
             \* Push(kFeaCount) was issued, and Wait was called
  remains,   \* Tracker<BatchJob>: the outstanding count behind NumRemains()
  batches,   \* bag of the batch closures handed to the tracker's consumer
  \* -- RunScheduler --
  param,     \* DiFactoParam: model_in, data_in, val_data set or empty; the
             \* task says predict; max_num_epochs
  spc,       \* position of the RunScheduler thread
  cur_epoch, \* int cur_epoch
  etype,     \* job_type of the RunEpoch call being run
  jobs,      \* JobTracker: bag of the jobs not yet completed
  addLog,    \* one entry per tracker_->Add call, in order
  tick,      \* the driver's last Sleep(): in which loop, and whether the
             \* continuation callbacks ran after it
  epochCbs,  \* how many times the epoch callbacks have been run
  \* -- SpMM --
  D,         \* the row-compressed matrix: size, offset, index, value
  x,         \* the dense input
  y,         \* the output buffer
  y0,        \* what the output buffer held when the call was made
  y_null,    \* the caller passed a null y
  nt,        \* the requested thread count
  mpc,       \* position of the SpMM call
  dim,       \* the derived block width
  team,      \* omp_get_num_threads() of the parallel region
  ti,        \* per thread: the row it processes next
  op,        \* the entry point called: "Times", "TransTimes" (y = D'x) or
             \* "TransTimesBias" (y = D'x + p z)
  p,         \* the scalar of the biased form
  z,         \* the vector of the biased form
  wr,        \* per element of y: the threads of the team that wrote it
  acc        \* how often each unit of work was done: per row for Times,
             \* per nonzero for TransTimes

pfvars == <<job, nread, eof, pc, feacnt, fc, remains, batches>>

svars == <<param, spc, cur_epoch, etype, jobs, addLog, tick, epochCbs>>

mvars == <<D, x, y, y0, y_null, nt, mpc, dim, team, ti, op, p, z, wr, acc>>

vars == <<pfvars, svars, mvars>>

(***************************************************************************)
(* Job types (Job::kTraining, ...).                                        *)
(***************************************************************************)
kLoadModel  == "LoadModel"
kSaveModel  == "SaveModel"
kTraining   == "Training"
kValidation == "Validation"
kPrediction == "Prediction"

FileJobTypes == {kTraining, kValidation, kPrediction}

JobTypes == {kLoadModel, kSaveModel} \cup FileJobTypes

\* Bounds of the model.
\* batches per partition: enough to fill the tracker and block the producer
MaxBatches == 12
\* job.epoch ranges over 0..MaxEpoch
MaxEpoch == 1

\* while (tracker.NumRemains() > 10) Sleep(10);
kMaxOutstanding == 10

(***************************************************************************)
(* Bag helpers.                                                            *)
(***************************************************************************)
One(b) == SetToBag({b})

Replace(B, old, new) == (B (-) One(old)) (+) One(new)

RECURSIVE CountWhere(_, _)
\* number of elements of bag B (with multiplicity) whose record satisfies
\* "fired > 0": written out for the one use below
CountWhere(B, S) ==
  IF S = {} THEN 0
  ELSE LET b == CHOOSE e \in S : TRUE
       IN  (IF b.fired > 0 THEN CopiesIn(b, B) ELSE 0) + CountWhere(B, S \ {b})

NumSubmitted == BagCardinality(batches)
NumCompleted == CountWhere(batches, BagToSet(batches))

(***************************************************************************)
(* Tracker<BatchJob> (common/tracker.h), after its contract: Add counts    *)
(* the item and runs the consumer; the completion closure counts it off.   *)
(***************************************************************************)
NumRemains == remains

TrackerAdd(n) == n + 1

OnComplete(n, times) == n - times

(***************************************************************************)
(* ProcessFile: the producer loop.                                         *)
(***************************************************************************)
\* A slip: counts are pushed in every training epoch.
push_cntEveryEpoch(j) == j.type = kTraining

\* bool push_cnt = job.type == Job::kTraining && job.epoch == 0;
push_cnt(j) == j.type = kTraining /\ j.epoch = 0

\* The consumer of the batch tracker: new val, val_siz; store_->Pull(kWeight,..)
\* with pull_callback as its continuation.  cnt remembers what the batch's own
\* FeaCount push was doing when the Pull was issued.  The log starts with the
\* batch's container, made at line 180.
Consumer(type, cnt) ==
  [type |-> type, cnt |-> cnt, st |-> "pull", push |-> "none", fired |-> 0,
   log |-> <<"new data", "new val", "new val_siz", "Pull">>]

\* DiFacto::Process: a save or load job does nothing here, every other job
\* goes to ProcessFile, which makes the reader and the batch tracker.
Process ==
  /\ pc = "process"
  /\ IF job.type \in {kSaveModel, kLoadModel}
     THEN pc' = "done"
     ELSE pc' = "next"
  /\ UNCHANGED <<svars, mvars, job, fc, nread, eof, feacnt, remains, batches>>

\* while (reader.Next()): the reader yields a batch or is exhausted.
ReaderNext ==
  /\ pc = "next"
  /\ \E more \in BOOLEAN :
       IF more /\ nread < MaxBatches
       THEN /\ nread' = nread + 1
            /\ pc' = "compact"
            /\ UNCHANGED eof
       ELSE /\ pc' = "drain"
            /\ eof' = TRUE
            /\ UNCHANGED nread
  /\ UNCHANGED <<svars, mvars, job, fc, feacnt, remains, batches>>

\* lines 178-193: build the batch, Localizer::Compact, and, if counts were
\* requested, issue Push(kFeaCount) and enter Wait on its handle.
Compact ==
  /\ pc = "compact"
  /\ IF push_cnt(job)
     THEN /\ feacnt' = "flight"
          /\ fc' = [asked |-> fc.asked + 1, pushes |-> fc.pushes + 1,
                    waits |-> fc.waits + 1]
          /\ pc' = "wait"
     ELSE /\ feacnt' = "none"
          /\ fc' = fc
          /\ pc' = "throttle"
  /\ UNCHANGED <<svars, mvars, job, nread, eof, remains, batches>>

\* The store completes the FeaCount push.
FeaCountDone ==
  /\ feacnt = "flight"
  /\ feacnt' = "done"
  /\ UNCHANGED <<svars, mvars, job, fc, nread, eof, pc, remains, batches>>

\* A slip that would not wait for the handle.
WaitNoBlock ==
  /\ pc = "wait"
  /\ pc' = "throttle"
  /\ UNCHANGED <<svars, mvars, job, fc, nread, eof, feacnt, remains, batches>>

\* store_->Wait(handle) returns once the push has completed.
Wait ==
  /\ pc = "wait"
  /\ feacnt = "done"
  /\ pc' = "throttle"
  /\ UNCHANGED <<svars, mvars, job, fc, nread, eof, feacnt, remains, batches>>

\* A slip in the test: the loop waits for the tracker to be empty and beyond.
AdmitNever(n) == ~(n >= 0)

\* A slip in the threshold: admits whenever fewer than 12 are outstanding.
AdmitLoose(n) == n <= kMaxOutstanding + 1

\* while (tracker.NumRemains() > 10) Sleep(10);  -- the loop's exit test
Admit(n) == ~(n > kMaxOutstanding)

Throttle ==
  /\ pc = "throttle"
  /\ IF Admit(NumRemains) THEN pc' = "add" ELSE pc' = pc
  /\ UNCHANGED <<svars, mvars, job, fc, nread, eof, feacnt, remains, batches>>

\* tracker.Add({batch}): the count goes up and the consumer runs, which issues
\* the Pull.
Add ==
  /\ pc = "add"
  /\ remains' = TrackerAdd(remains)
  /\ batches' = batches (+) One(Consumer(job.type, feacnt))
  /\ pc' = "next"
  /\ UNCHANGED <<svars, mvars, job, fc, nread, eof, feacnt>>

\* A slip that would return without draining.
DrainedNoWait(n) == TRUE

\* while (tracker.NumRemains() > 0) Sleep(10);  -- the loop's exit test
Drained(n) == ~(n > 0)

Drain ==
  /\ pc = "drain"
  /\ IF Drained(NumRemains) THEN pc' = "done" ELSE pc' = pc
  /\ UNCHANGED <<svars, mvars, job, fc, nread, eof, feacnt, remains, batches>>

(***************************************************************************)
(* pull_callback, on whatever thread the store delivers it, in three       *)
(* steps: InitData; Evaluate up to the Push or on_complete; the deletes.   *)
(***************************************************************************)
\* line 142
PullCallbackInit(b) ==
  [b EXCEPT !.st = "init", !.log = Append(@, "InitData")]

\* A slip: a validation batch never signals completion.
PullCallbackBodySilent(b) ==
  IF b.type = kTraining
  THEN [b EXCEPT !.st = "tail", !.push = "flight",
                 !.log = @ \o <<"Evaluate", "CalcGrad", "Push">>]
  ELSE IF b.type = kPrediction
  THEN [b EXCEPT !.st = "tail", !.fired = @ + 1,
                 !.log = @ \o <<"Evaluate", "Predict", "complete">>]
  ELSE [b EXCEPT !.st = "tail", !.log = @ \o <<"Evaluate">>]

\* A slip: the training path also signals completion right away.
PullCallbackBodyEager(b) ==
  IF b.type = kTraining
  THEN [b EXCEPT !.st = "tail", !.push = "flight", !.fired = @ + 1,
                 !.log = @ \o <<"Evaluate", "CalcGrad", "Push", "complete">>]
  ELSE [b EXCEPT !.st = "tail", !.fired = @ + 1,
                 !.log = @ \o <<"Evaluate">>
                           \o (IF b.type = kPrediction THEN <<"Predict">> ELSE <<>>)
                           \o <<"complete">>]

\* A slip: the branches of the type test are swapped around.
PullCallbackBodySwapped(b) ==
  IF b.type = kValidation
  THEN [b EXCEPT !.st = "tail", !.push = "flight",
                 !.log = @ \o <<"Evaluate", "CalcGrad", "Push">>]
  ELSE [b EXCEPT !.st = "tail", !.fired = @ + 1,
                 !.log = @ \o <<"Evaluate">>
                           \o (IF b.type = kPrediction THEN <<"Predict">> ELSE <<>>)
                           \o <<"complete">>]

\* lines 143-167
PullCallbackBody(b) ==
  IF b.type = kTraining
  THEN [b EXCEPT !.st = "tail", !.push = "flight",
                 !.log = @ \o <<"Evaluate", "CalcGrad", "Push">>]
  ELSE [b EXCEPT !.st = "tail", !.fired = @ + 1,
                 !.log = @ \o <<"Evaluate">>
                           \o (IF b.type = kPrediction THEN <<"Predict">> ELSE <<>>)
                           \o <<"complete">>]

\* A slip: the callback returns without deleting the container.
PullCallbackTailKeep(b) ==
  [b EXCEPT !.st = "ret",
            !.log = @ \o (IF b.type = kTraining THEN <<>>
                          ELSE <<"delete val", "delete val_siz">>)]

\* A slip: val and val_siz are deleted on the training path too.
PullCallbackTailAll(b) ==
  [b EXCEPT !.st = "ret",
            !.log = @ \o <<"delete val", "delete val_siz", "delete data">>]

\* lines 168-171
PullCallbackTail(b) ==
  [b EXCEPT !.st = "ret",
            !.log = @ \o (IF b.type = kTraining THEN <<>>
                          ELSE <<"delete val", "delete val_siz">>)
                      \o <<"delete data">>]

\* line 158: [on_complete]() { on_complete(); }
PushCallback(b) ==
  [b EXCEPT !.push = "done", !.fired = @ + 1,
            !.log = @ \o <<"PushDone", "complete">>]

\* The store drops the shared_ptrs of val and val_siz it was handed with the
\* gradient Push (lines 155-157) once that Push is done.
StoreRelease(b) ==
  [b EXCEPT !.log = @ \o <<"release val", "release val_siz">>]

\* One step of a batch's continuation: b becomes b2, and every on_complete()
\* in the step takes one off the tracker's count.
Step(b, b2) ==
  /\ batches' = Replace(batches, b, b2)
  /\ remains' = OnComplete(remains, b2.fired - b.fired)
  /\ UNCHANGED <<svars, mvars, job, fc, nread, eof, pc, feacnt>>

PullDone ==
  \E b \in BagToSet(batches) :
    /\ b.st = "pull"
    /\ Step(b, PullCallbackInit(b))

CallbackBody ==
  \E b \in BagToSet(batches) :
    /\ b.st = "init"
    /\ Step(b, PullCallbackBody(b))

CallbackTail ==
  \E b \in BagToSet(batches) :
    /\ b.st = "tail"
    /\ Step(b, PullCallbackTail(b))

PushDone ==
  \E b \in BagToSet(batches) :
    /\ b.push = "flight"
    /\ Step(b, StoreRelease(PushCallback(b)))

NULL == "NULL"

\* nothing asked, pushed or waited for yet
NoCounts == [asked |-> 0, pushes |-> 0, waits |-> 0]

IdlePF ==
  /\ job = NULL /\ nread = 0 /\ eof = FALSE /\ pc = "idle"
  /\ feacnt = "none" /\ fc = NoCounts /\ remains = 0 /\ batches = EmptyBag

IdleSched ==
  /\ param = NULL /\ spc = "idle" /\ cur_epoch = 0 /\ etype = NULL
  /\ jobs = EmptyBag /\ addLog = <<>> /\ tick = NULL /\ epochCbs = 0

IdleMM ==
  /\ D = NULL /\ x = <<>> /\ y = <<>> /\ y0 = <<>> /\ y_null = FALSE /\ nt = 0
  /\ mpc = "idle" /\ dim = 0 /\ team = 0 /\ ti = <<>>
  /\ op = NULL /\ p = 0 /\ z = <<>> /\ wr = <<>> /\ acc = <<>>

InitPF ==
  /\ job \in [type : JobTypes, epoch : 0..MaxEpoch]
  /\ nread = 0
  /\ eof = FALSE
  /\ pc = "process"
  /\ feacnt = "none"
  /\ fc = NoCounts
  /\ remains = 0
  /\ batches = EmptyBag
  /\ IdleSched
  /\ IdleMM


NextPF ==
  \/ Process
  \/ ReaderNext
  \/ Compact
  \/ FeaCountDone
  \/ Wait
  \/ Throttle
  \/ Add
  \/ Drain
  \/ PullDone
  \/ CallbackBody
  \/ CallbackTail
  \/ PushDone

SpecPF == InitPF /\ [][NextPF]_vars

\* The ProcessFile thread and the store's threads keep running, and every
\* Pull, Push and Wait the store was handed completes: as long as some step
\* of the pipeline can be taken, one is.  (A turn of a Sleep loop whose test
\* still fails changes nothing and is no step.)
FairPF == SpecPF /\ WF_vars(NextPF)

(***************************************************************************)
(* JobTracker (tracker_), after its contract: Add takes the jobs, the      *)
(* consumer (DiFacto::Process, bound in Init) runs once per job, and a job *)
(* leaves the outstanding count when its consumer has finished.  The jobs  *)
(* of one Add differ in part_idx alone and Process treats every partition  *)
(* alike, so the tracker keeps them as a bag keyed by (type, epoch); the   *)
(* part indices of each Add are kept in addLog.                            *)
(***************************************************************************)
Key(j) == [type |-> j.type, epoch |-> j.epoch]

\* the jobs of a vector as a bag of keys
SeqToBag(js) ==
  [k \in {Key(js[i]) : i \in 1..Len(js)} |->
     Cardinality({i \in 1..Len(js) : Key(js[i]) = k})]

JobTrackerAdd(B, js) == B (+) SeqToBag(js)

JobNumRemains == BagCardinality(jobs)

\* A job's consumer has finished: the tracker counts it off.
JobDone ==
  /\ \E j \in BagToSet(jobs) : jobs' = jobs (-) One(j)
  /\ UNCHANGED <<pfvars, mvars, param, spc, cur_epoch, etype, addLog, tick, epochCbs>>

(***************************************************************************)
(* RunScheduler and RunEpoch.                                              *)
(***************************************************************************)
\* largest max_num_epochs tried
MaxNumEpochs == 2

\* job.num_parts = 100;
num_parts == 100

\* Job job; job.type = Job::kLoadModel; (epoch and part_idx are not set)
LoadJob == [type |-> kLoadModel, epoch |-> -1, part_idx |-> -1, num_parts |-> -1]

\* A slip: part_idx runs from 1.
EpochJobsFromOne(epoch, type) ==
  [i \in 1..num_parts |->
     [type |-> type, epoch |-> epoch, part_idx |-> i, num_parts |-> num_parts]]

\* for (int i = 0; i < job.num_parts; ++i) { job.part_idx = i; jobs.push_back(job); }
EpochJobs(epoch, type) ==
  [i \in 1..num_parts |->
     [type |-> type, epoch |-> epoch, part_idx |-> i - 1, num_parts |-> num_parts]]

\* What one tracker_->Add(js) call looked like: the kinds of job, how many,
\* their part indices, and what was outstanding and how often the epoch
\* callbacks had run when it was made.
LogEntry(js) ==
  [keys   |-> {Key(js[i]) : i \in 1..Len(js)},
   njobs  |-> Len(js),
   parts  |-> {js[i].part_idx : i \in 1..Len(js)},
   before |-> JobNumRemains,
   cbs    |-> epochCbs]

TrackerAddJobs(js) ==
  /\ jobs' = JobTrackerAdd(jobs, js)
  /\ addLog' = Append(addLog, LogEntry(js))

\* job_type == Job::kValidation ? param_.val_data : param_.data_in, non-empty
HasFile(type) == IF type = kValidation THEN param.val_data ELSE param.data_in

\* where RunScheduler goes on when RunEpoch(_, type) returns
AfterEpoch(type) ==
  CASE type = kPrediction -> "loop"
    [] type = kTraining   -> "validate"
    [] OTHER              -> "callbacks"

\* RunEpoch up to its wait loop: lines 89-101
RunEpochEnter(epoch, type) ==
  IF ~HasFile(type)
  THEN /\ spc' = AfterEpoch(type)
       /\ UNCHANGED <<jobs, addLog, etype>>
  ELSE /\ TrackerAddJobs(EpochJobs(epoch, type))
       /\ etype' = type
       /\ spc' = "epoch_wait"

NoTick == [loop |-> "none", cont |-> FALSE]

\* line 71: while (tracker_->NumRemains() != 0) Sleep();
LoadTick == [loop |-> "load", cont |-> FALSE]

\* A slip: RunEpoch's loop only sleeps.
EpochTickSilent == [loop |-> "epoch", cont |-> FALSE]

\* lines 104-105: Sleep(); for (auto& cb : cont_callbacks_) cb();
EpochTick == [loop |-> "epoch", cont |-> TRUE]

\* lines 63-70
Start ==
  /\ spc = "start"
  /\ IF param.model_in
     THEN /\ TrackerAddJobs(<<LoadJob>>)
          /\ spc' = "load_wait"
     ELSE /\ spc' = "predict"
          /\ UNCHANGED <<jobs, addLog>>
  /\ UNCHANGED <<pfvars, mvars, param, cur_epoch, etype, tick, epochCbs>>

\* A slip: the wait loop lets one job stay behind.
AllDoneButOne(n) == ~(n > 1)

\* the exit test of the wait loops: while (tracker_->NumRemains() != 0)
AllDone(n) == ~(n # 0)

\* line 71
LoadWait ==
  /\ spc = "load_wait"
  /\ IF AllDone(JobNumRemains)
     THEN spc' = "predict" /\ UNCHANGED tick
     ELSE tick' = LoadTick /\ UNCHANGED spc
  /\ UNCHANGED <<pfvars, mvars, param, cur_epoch, etype, jobs, addLog, epochCbs>>

\* lines 75-77; CHECK(param_.model_in.size()) is fatal when it fails
Predict ==
  /\ spc = "predict"
  /\ IF ~param.predict
     THEN spc' = "loop" /\ UNCHANGED <<jobs, addLog, etype>>
     ELSE IF ~param.model_in
     THEN spc' = "fatal" /\ UNCHANGED <<jobs, addLog, etype>>
     ELSE RunEpochEnter(cur_epoch, kPrediction)
  /\ UNCHANGED <<pfvars, mvars, param, cur_epoch, tick, epochCbs>>

\* A slip: the loop runs one round too many.
MoreEpochsInclusive(e, max) == e <= max

\* line 81: cur_epoch < param_.max_num_epochs
MoreEpochs(e, max) == e < max

\* lines 81-82
Loop ==
  /\ spc = "loop"
  /\ IF MoreEpochs(cur_epoch, param.max_num_epochs)
     THEN RunEpochEnter(cur_epoch, kTraining)
     ELSE spc' = "done" /\ UNCHANGED <<jobs, addLog, etype>>
  /\ UNCHANGED <<pfvars, mvars, param, cur_epoch, tick, epochCbs>>

\* lines 103-106, and the return of RunEpoch
EpochWait ==
  /\ spc = "epoch_wait"
  /\ IF AllDone(JobNumRemains)
     THEN spc' = AfterEpoch(etype) /\ UNCHANGED tick
     ELSE tick' = EpochTick /\ UNCHANGED spc
  /\ UNCHANGED <<pfvars, mvars, param, cur_epoch, etype, jobs, addLog, epochCbs>>

\* line 83
Validate ==
  /\ spc = "validate"
  /\ RunEpochEnter(cur_epoch, kValidation)
  /\ UNCHANGED <<pfvars, mvars, param, cur_epoch, tick, epochCbs>>

\* line 84 and the loop's ++cur_epoch
Callbacks ==
  /\ spc = "callbacks"
  /\ epochCbs' = epochCbs + 1
  /\ cur_epoch' = cur_epoch + 1
  /\ spc' = "loop"
  /\ UNCHANGED <<pfvars, mvars, param, etype, jobs, addLog, tick>>

InitSched ==
  /\ param \in [model_in : BOOLEAN, predict : BOOLEAN, data_in : BOOLEAN,
                val_data : BOOLEAN, max_num_epochs : 0..MaxNumEpochs]
  /\ spc = "start"
  /\ cur_epoch = 0
  /\ etype = NULL
  /\ jobs = EmptyBag
  /\ addLog = <<>>
  /\ tick = NoTick
  /\ epochCbs = 0
  /\ IdlePF
  /\ IdleMM

Driver ==
  \/ Start
  \/ LoadWait
  \/ Predict
  \/ Loop
  \/ EpochWait
  \/ Validate
  \/ Callbacks

NextSched ==
  \/ Start
  \/ LoadWait
  \/ Predict
  \/ Loop
  \/ EpochWait
  \/ Validate
  \/ Callbacks
  \/ JobDone

SpecSched == InitSched /\ [][NextSched]_vars

\* The driver thread keeps running and every job's consumer finishes.
FairSched == SpecSched /\ WF_vars(Driver) /\ WF_vars(JobDone)

(***************************************************************************)
(* SpMM::Times (src/src/common/spmm.h).  Buffers are sequences; element e  *)
(* of a C array a is a[e + 1] here.                                        *)
(***************************************************************************)
MaxRows == 3       \* D.size ranges over 0..MaxRows
MaxDim == 2        \* block widths 0..MaxDim
MaxThreads == 3    \* nt ranges over 1..MaxThreads
NumCols == 2       \* column ids are 0..NumCols-1

\* the rows the matrices are built from, as (column, value) lists
RowShapes ==
  { <<>>,
    <<[c |-> 0, v |-> 1]>>,
    <<[c |-> 0, v |-> 2], [c |-> 1, v |-> 3]>> }

RECURSIVE Flatten(_)
Flatten(rows) == IF rows = <<>> THEN <<>> ELSE Head(rows) \o Flatten(Tail(rows))

RECURSIVE Offsets(_, _)
Offsets(rows, from) ==
  IF rows = <<>> THEN <<from>>
  ELSE <<from>> \o Offsets(Tail(rows), from + Len(Head(rows)))

\* dmlc::RowBlock<unsigned>: size, offset[0..size], index[], value[] or null
RowBlock(rows, valued) ==
  LET nz == Flatten(rows)
  IN  [size      |-> Len(rows),
       offset    |-> Offsets(rows, 0),
       index     |-> [j \in 1..Len(nz) |-> nz[j].c],
       has_value |-> valued,
       value     |-> IF valued THEN [j \in 1..Len(nz) |-> nz[j].v] ELSE <<>>]

Matrices ==
  {RowBlock(rows, valued) :
     rows \in UNION {[1..n -> RowShapes] : n \in 0..MaxRows}, valued \in BOOLEAN}

\* the dense inputs of shape [NumCols, d]: <<5, 7, ...>> and <<1, 0, ...>>
Inputs(d) ==
  { [q \in 1..(NumCols * d) |-> 3 + 2 * q],
    [q \in 1..(NumCols * d) |-> q % 2] }

\* Range(0, n).Segment(idx, nparts) of common/range.h, after its contract:
\* contiguous, covering, sizes differing by at most one
SegBegin(n, idx, nparts) == (n * idx) \div nparts

SegEnd(n, idx, nparts) == (n * (idx + 1)) \div nparts

\* memset(y, 0, D.size * dim * sizeof(V))
Memset(yv, count) == [q \in 1..Len(yv) |-> IF q <= count THEN 0 ELSE yv[q]]

\* for (int k = 0; k < dim; ++k) y_i[k] += x_j[k] * v;
AddBlock(yv, xv, i, c, v, d) ==
  [q \in 1..Len(yv) |->
     IF d > 0 /\ (q - 1) \div d = i
     THEN yv[q] + xv[c * d + ((q - 1) % d) + 1] * v
     ELSE yv[q]]

\* A slip: the explicit value of a nonzero is not used.
NonzeroValueUnit(Dm, j) == 1

\* V v = D.value[j] when the matrix has values; else each nonzero counts 1
NonzeroValue(Dm, j) == IF Dm.has_value THEN Dm.value[j + 1] ELSE 1

RECURSIVE RowLoop(_, _, _, _, _, _)
\* the j loop of one row: for (size_t j = D.offset[i]; j < D.offset[i+1]; ++j)
RowLoop(Dm, xv, yv, i, j, d) ==
  IF j >= Dm.offset[i + 2] THEN yv
  ELSE RowLoop(Dm, xv,
               AddBlock(yv, xv, i, Dm.index[j + 1], NonzeroValue(Dm, j), d),
               i, j + 1, d)

\* the body of the i loop, lines 88-101
TimesRow(Dm, xv, yv, i, d) ==
  IF Dm.offset[i + 1] = Dm.offset[i + 2] THEN yv
  ELSE RowLoop(Dm, xv, yv, i, Dm.offset[i + 1], d)

\* A slip: the early return on an empty x is missing.
EmptyInputNever(xv) == FALSE

\* if (x.empty()) return;  (lines 32 and 67)
EmptyInput(xv) == xv = <<>>

\* the elements of y one iteration of the i loop of Times writes
TimesWrites(Dm, yv, i, d) ==
  IF Dm.offset[i + 1] = Dm.offset[i + 2] THEN {}
  ELSE {q \in 1..Len(yv) : d > 0 /\ (q - 1) \div d = i}

\* wr after thread t wrote the elements in ws
Wrote(w, ws, t) == [q \in DOMAIN w |-> IF q \in ws THEN w[q] \cup {t} ELSE w[q]]

\* the parallel region starts: a team of n <= nt threads, thread t at the
\* row first[n][t], nothing written and no unit of work done yet
Fork(first, units) ==
  /\ \E n \in 1..nt :
       /\ team' = n
       /\ ti' = first[n]
  /\ wr' = [q \in 1..Len(y) |-> {}]
  /\ acc' = [u \in 0..(units - 1) |-> 0]
  /\ mpc' = "run"

\* rg.begin of lines 84-86, per team size
TimesFirst == [n \in 1..nt |-> [t \in 0..(n - 1) |-> SegBegin(D.size, t, n)]]

\* Times (public), lines 32-35, and the memset of line 81; the team of the
\* parallel region has at most nt threads, each starting at its segment.
TimesCall ==
  /\ mpc = "call"
  /\ op = "Times"
  /\ IF EmptyInput(x)
     THEN /\ mpc' = "done"
          /\ UNCHANGED <<y, dim, team, ti, wr, acc>>
     ELSE IF y_null
     THEN /\ mpc' = "fatal"
          /\ UNCHANGED <<y, dim, team, ti, wr, acc>>
     ELSE IF D.size = 0
     THEN \* y->size() / D.size divides by zero: a trap, or a zero quotient
          \/ /\ mpc' = "fault"
             /\ UNCHANGED <<y, dim, team, ti, wr, acc>>
          \/ /\ dim' = 0
             /\ y' = Memset(y, 0)
             /\ Fork(TimesFirst, D.size)
     ELSE /\ dim' = Len(y) \div D.size
          /\ y' = Memset(y, D.size * (Len(y) \div D.size))
          /\ Fork(TimesFirst, D.size)
  /\ UNCHANGED <<pfvars, svars, D, x, y0, y_null, nt, op, p, z>>

\* one iteration of a thread's i loop, lines 87-102
ThreadRow ==
  /\ mpc = "run"
  /\ op = "Times"
  /\ \E t \in DOMAIN ti :
       /\ ti[t] < SegEnd(D.size, t, team)
       /\ y' = TimesRow(D, x, y, ti[t], dim)
       /\ wr' = Wrote(wr, TimesWrites(D, y, ti[t], dim), t)
       /\ acc' = [acc EXCEPT ![ti[t]] = @ + 1]
       /\ ti' = [ti EXCEPT ![t] = @ + 1]
  /\ UNCHANGED <<pfvars, svars, D, x, y0, y_null, nt, op, p, z, mpc, dim, team>>

\* the end of the parallel region: every thread has finished its rows
TimesJoin ==
  /\ mpc = "run"
  /\ op = "Times"
  /\ \A t \in DOMAIN ti : ti[t] >= SegEnd(D.size, t, team)
  /\ mpc' = "done"
  /\ UNCHANGED <<pfvars, svars, D, x, y, y0, y_null, nt, op, p, z, dim, team, ti, wr, acc>>

(***************************************************************************)
(* SpMM::TransTimes.                                                       *)
(***************************************************************************)
\* the plain form forwards with p = 0 and an empty z (lines 44-50)
PArg == IF op = "TransTimes" THEN 0 ELSE p

ZArg == IF op = "TransTimes" THEN <<>> ELSE z

\* A slip: y is not initialised before the accumulation.
TransInitKeep(yv, zv, pv) == yv

\* lines 69-73 and 112-116: y[i] = z[i] * p when z has y's size and p is
\* not 0, and memset(y, 0, y_size) otherwise
TransInit(yv, zv, pv) ==
  IF Len(zv) = Len(yv) /\ pv # 0
  THEN [q \in 1..Len(yv) |-> zv[q] * pv]
  ELSE [q \in 1..Len(yv) |-> 0]

\* Range::Has of common/range.h: begin <= e < end
Has(lo, hi, e) == lo <= e /\ e < hi

\* A slip: every thread takes every nonzero, whatever its column.
OwnedAlways(lo, hi, e) == TRUE

\* if (rg.Has(e)), lines 129 and 138
Owned(lo, hi, e) == Has(lo, hi, e)

RECURSIVE TransRowLoop(_, _, _, _, _, _, _, _)
\* the j loop of one row of D for the thread that owns columns lo..hi-1
TransRowLoop(Dm, xv, yv, i, j, d, lo, hi) ==
  IF j >= Dm.offset[i + 2] THEN yv
  ELSE TransRowLoop(Dm, xv,
                    IF Owned(lo, hi, Dm.index[j + 1])
                    THEN AddBlock(yv, xv, Dm.index[j + 1], i, NonzeroValue(Dm, j), d)
                    ELSE yv,
                    i, j + 1, d, lo, hi)

\* the nonzeros of row i the thread accumulates
TransHits(Dm, i, lo, hi) ==
  {j \in Dm.offset[i + 1]..(Dm.offset[i + 2] - 1) : Owned(lo, hi, Dm.index[j + 1])}

\* the elements of y the thread writes for row i
TransWrites(Dm, yv, i, d, lo, hi) ==
  {q \in 1..Len(yv) :
     d > 0 /\ \E j \in TransHits(Dm, i, lo, hi) : (q - 1) \div d = Dm.index[j + 1]}

\* y_size / dim of line 120; a zero dim is only met after a zero quotient
TransCols == IF dim = 0 THEN 0 ELSE Len(y) \div dim

\* size_t i = 0 of line 123, per team size
TransFirst == [n \in 1..nt |-> [t \in 0..(n - 1) |-> 0]]

\* after dim is derived: y->size() of line 69, the private TransTimes up to
\* the start of its parallel region, and y_size / dim of line 120
TransEnter(d) ==
  IF y_null
  THEN \* y->size() on a null pointer: the load traps, or the call goes on
       \* with whatever it read
       /\ mpc' \in {"segv", "wild"}
       /\ UNCHANGED <<y, dim, team, ti, wr, acc>>
  ELSE /\ dim' = d
       /\ y' = TransInit(y, ZArg, PArg)
       /\ \/ \* y_size / dim divides by zero: a trap ...
             /\ d = 0
             /\ mpc' = "fault"
             /\ UNCHANGED <<team, ti, wr, acc>>
          \/ \* ... or a zero quotient, and then no thread owns a column
             Fork(TransFirst, Len(D.index))

\* TransTimes (public, both forms), lines 44-74
TransCall ==
  /\ mpc = "call"
  /\ op \in {"TransTimes", "TransTimesBias"}
  /\ IF EmptyInput(x)
     THEN /\ mpc' = "done"
          /\ UNCHANGED <<y, dim, team, ti, wr, acc>>
     ELSE IF D.size = 0
     THEN \* x.size() / D.size divides by zero: a trap, or a zero quotient
          \/ /\ mpc' = "fault"
             /\ UNCHANGED <<y, dim, team, ti, wr, acc>>
          \/ TransEnter(0)
     ELSE TransEnter(Len(x) \div D.size)
  /\ UNCHANGED <<pfvars, svars, D, x, y0, y_null, nt, op, p, z>>

\* one iteration of a thread's i loop, lines 123-143: every thread scans
\* every row of D
TransThreadRow ==
  /\ mpc = "run"
  /\ op \in {"TransTimes", "TransTimesBias"}
  /\ \E t \in DOMAIN ti :
       /\ ti[t] < D.size
       /\ LET lo == SegBegin(TransCols, t, team)
              hi == SegEnd(TransCols, t, team)
          IN  /\ y' = TransRowLoop(D, x, y, ti[t], D.offset[ti[t] + 1], dim, lo, hi)
              /\ wr' = Wrote(wr, TransWrites(D, y, ti[t], dim, lo, hi), t)
              /\ acc' = [j \in DOMAIN acc |->
                           IF j \in TransHits(D, ti[t], lo, hi)
                           THEN acc[j] + 1 ELSE acc[j]]
       /\ ti' = [ti EXCEPT ![t] = @ + 1]
  /\ UNCHANGED <<pfvars, svars, D, x, y0, y_null, nt, op, p, z, mpc, dim, team>>

\* the end of the parallel region of TransTimes
TransJoin ==
  /\ mpc = "run"
  /\ op \in {"TransTimes", "TransTimesBias"}
  /\ \A t \in DOMAIN ti : ti[t] >= D.size
  /\ mpc' = "done"
  /\ UNCHANGED <<pfvars, svars, D, x, y, y0, y_null, nt, op, p, z, dim, team, ti, wr, acc>>

MaxTransRows == 2  \* D.size ranges over 0..MaxTransRows for TransTimes

\* the matrix of the specification's scenario
ScenarioMatrix ==
  RowBlock(<< <<[c |-> 0, v |-> 1]>>,
              <<[c |-> 0, v |-> 2], [c |-> 1, v |-> 3]>>,
              <<>> >>, TRUE)

TransMatrices ==
  {RowBlock(rows, valued) :
     rows \in UNION {[1..n -> RowShapes] : n \in 0..MaxTransRows}, valued \in BOOLEAN}
  \cup {ScenarioMatrix}

\* dense inputs of the given length: <<2, 3, ...>> and <<1, ..., 1, 0>>
TransInputs(len) ==
  { [q \in 1..len |-> 1 + q],
    [q \in 1..len |-> IF q < len THEN 1 ELSE 0] }

InitTimes ==
  /\ op = "Times"
  /\ D \in Matrices
  /\ \E d \in 0..MaxDim :
       /\ x \in Inputs(d)
       /\ y_null \in BOOLEAN
       \* a pre-allocated y of shape [D.size, d] holds leftovers (9s); with
       \* an empty x, y may also be any other buffer; a one-element y has
       \* fewer elements than D has rows
       /\ y \in {IF y_null THEN <<>> ELSE [q \in 1..(D.size * d) |-> 9]}
                \cup (IF d = 0 /\ ~y_null THEN {<<9, 8>>} ELSE {})
                \cup (IF d = 1 /\ ~y_null /\ D.size >= 2 THEN {<<9>>} ELSE {})
  /\ p = 0
  /\ z = <<>>

InitTrans ==
  /\ op \in {"TransTimes", "TransTimesBias"}
  /\ D \in TransMatrices
  /\ \E d \in 0..MaxDim :
       \* x of shape [D.size, d], or a one-element x whatever D.size is
       /\ x \in TransInputs(D.size * d)
               \cup (IF d = 1 /\ D.size # 1 THEN {<<1>>} ELSE {})
       /\ y_null \in BOOLEAN
       \* a pre-allocated y of shape [NumCols, d] holds leftovers (9s); with
       \* an empty x, y may also be any other buffer
       /\ y \in {IF y_null THEN <<>> ELSE [q \in 1..(NumCols * d) |-> 9]}
                \cup (IF d = 0 /\ ~y_null THEN {<<9, 8>>} ELSE {})
  /\ IF op = "TransTimes"
     THEN p = 0 /\ z = <<>>
     ELSE p \in {0, 2} /\ z \in {<<>>, [q \in 1..Len(y) |-> 10 * q]}

InitMM ==
  /\ InitTimes \/ InitTrans
  /\ y0 = y
  /\ nt \in 1..MaxThreads
  /\ mpc = "call"
  /\ dim = 0
  /\ team = 0
  /\ ti = <<>>
  /\ wr = <<>>
  /\ acc = <<>>
  /\ IdlePF
  /\ IdleSched

NextMM ==
  \/ TimesCall
  \/ ThreadRow
  \/ TimesJoin
  \/ TransCall
  \/ TransThreadRow
  \/ TransJoin

SpecMM == InitMM /\ [][NextMM]_vars

(***************************************************************************)
(* Properties of ProcessFile (checked under SpecPF).                       *)
(***************************************************************************)
Outstanding == NumSubmitted - NumCompleted

\* C1: NumRemains() is the number of batches submitted minus the number of
\* batches whose completion has fired; it is never negative, and it is zero
\* exactly when every submitted batch has completed.
TrackerAccounting ==
  /\ NumRemains = NumSubmitted - NumCompleted
  /\ NumRemains >= 0
  /\ (NumRemains = 0) <=> (\A b \in BagToSet(batches) : b.fired > 0)

\* Completions out of submission order: three submitted, two completed, and
\* the producer still streaming.
TrackerAccountingWitness ==
  /\ NumSubmitted = 3
  /\ NumCompleted = 2
  /\ NumRemains = 1
  /\ pc = "compact"

\* C2: a batch is added only after NumRemains() <= 10 was observed, so at
\* most 11 batches of the partition are outstanding in any state.
BackpressureBound ==
  /\ Outstanding <= kMaxOutstanding + 1
  /\ NumRemains <= kMaxOutstanding + 1
  /\ pc = "add" => NumRemains <= kMaxOutstanding

\* The tracker is full (11 outstanding) and the producer, holding the twelfth
\* batch, is held back in the throttle loop.
BackpressureBoundWitness ==
  /\ Outstanding = kMaxOutstanding + 1
  /\ pc = "throttle"
  /\ nread = kMaxOutstanding + 2

\* C3: ProcessFile has returned only if the reader is exhausted, every batch
\* submitted has fired its completion and no gradient Push is in flight.
DrainedAtReturn ==
  (pc = "done" /\ job.type \in FileJobTypes) =>
    /\ eof
    /\ NumRemains = 0
    /\ \A b \in BagToSet(batches) : b.fired > 0 /\ b.push # "flight"

\* A training partition of several batches has returned.
DrainedAtReturnWitness ==
  /\ pc = "done"
  /\ job.type = kTraining
  /\ NumSubmitted >= 2
  /\ \A b \in BagToSet(batches) : b.push = "done"

\* C4: in an epoch-0 training pass the Pull of a batch is issued only after
\* the Push of that batch's feature counts has completed.
CountPushBeforePull ==
  push_cnt(job) => \A b \in BagToSet(batches) : b.cnt = "done"

\* An epoch-0 training batch whose Pull is in flight, its counts pushed.
CountPushBeforePullWitness ==
  /\ push_cnt(job)
  /\ \E b \in BagToSet(batches) : b.st = "pull" /\ b.cnt = "done"

Occurrences(s, e) == Cardinality({i \in 1..Len(s) : s[i] = e})

Before(s, e1, e2) ==
  \A i \in 1..Len(s) : s[i] = e2 => \E k \in 1..(i - 1) : s[k] = e1

\* the continuation of b has nothing left to run or to wait for
Quiescent(b) == b.st = "ret" /\ b.push # "flight"

\* the batches that have been through lines 178-194
Compacted == IF pc = "compact" THEN nread - 1 ELSE nread

\* C14: counts are asked of the Localizer and pushed to kFeaCount exactly
\* when the job is Training with epoch 0, and then once per batch, each push
\* waited for; for every other (type, epoch) no count is asked for, no
\* FeaCount push is issued and no Wait is made.
FeaCountIffFirstEpoch ==
  IF job.type = kTraining /\ job.epoch = 0
  THEN /\ fc.asked = Compacted
       /\ fc.pushes = Compacted
       /\ fc.waits = Compacted
  ELSE /\ fc = NoCounts
       /\ feacnt = "none"
       /\ pc # "wait"

\* A training job of epoch 0 has returned after three batches, with three
\* FeaCount pushes.
FeaCountIffFirstEpochWitness ==
  /\ job = [type |-> kTraining, epoch |-> 0]
  /\ pc = "done"
  /\ nread = 3
  /\ fc.pushes = 3

\* C5: the completion continuation fires exactly once per batch: for a
\* training batch from the callback of its gradient Push, for another batch
\* inside the pull callback after Evaluate; never twice, never before the
\* Weight Pull has completed.
CompletionOnce ==
  \A b \in BagToSet(batches) :
    /\ b.fired <= 1
    /\ b.fired = Occurrences(b.log, "complete")
    /\ b.st = "pull" => b.fired = 0
    /\ Before(b.log, "InitData", "complete")
    /\ Before(b.log, "Evaluate", "complete")
    /\ b.type = kTraining =>
         /\ Before(b.log, "PushDone", "complete")
         /\ b.fired = 1 <=> b.push = "done"
    /\ b.type # kTraining =>
         /\ b.push = "none"
         /\ b.fired = 1 <=> b.st \in {"tail", "ret"}
    /\ Quiescent(b) => b.fired = 1

\* One training batch has completed through its push callback while another
\* batch's gradient Push is still in flight.
CompletionOnceWitness ==
  /\ \E b \in BagToSet(batches) :
       b.type = kTraining /\ b.fired = 1 /\ Quiescent(b)
  /\ \E b \in BagToSet(batches) : b.push = "flight"

IsPrefix(s, t) == Len(s) <= Len(t) /\ \A i \in 1..Len(s) : s[i] = t[i]

LossEvents == {"InitData", "Evaluate", "CalcGrad", "Predict", "Push"}

LossCalls(b) == SelectSeq(b.log, LAMBDA e : e \in LossEvents)

FixedOrder(type) ==
  IF type = kTraining THEN <<"InitData", "Evaluate", "CalcGrad", "Push">>
  ELSE IF type = kPrediction THEN <<"InitData", "Evaluate", "Predict">>
  ELSE <<"InitData", "Evaluate">>

\* C6: per batch the loss object is called in the order InitData, Evaluate,
\* then CalcGrad and Push(Gradient) only for Training, Predict only for
\* Prediction; Validation calls neither, and only Training pushes.
LossCallOrder ==
  \A b \in BagToSet(batches) :
    /\ IsPrefix(LossCalls(b), FixedOrder(b.type))
    /\ b.st \in {"tail", "ret"} => LossCalls(b) = FixedOrder(b.type)
    /\ b.type # kTraining => b.push = "none"

\* A prediction batch whose pull callback has returned, beside one that has
\* only run InitData.
LossCallOrderWitness ==
  /\ \E b \in BagToSet(batches) : b.type = kPrediction /\ b.st = "ret"
  /\ \E b \in BagToSet(batches) : b.st = "init"

\* C17 as stated: for every type of batch the container is not released
\* before the batch's completion continuation has run, and every batch's
\* container has been released when ProcessFile has returned.
ContainerHeldUntilCompletion ==
  /\ \A b \in BagToSet(batches) : Before(b.log, "complete", "delete data")
  /\ pc = "done" =>
       \A b \in BagToSet(batches) : Occurrences(b.log, "delete data") = 1

\* C17, amended: the container is released once, as the last statement of
\* the batch's pull callback: never before Evaluate has read it; for a
\* Validation or Prediction batch after the completion continuation has run;
\* for a Training batch after CalcGrad and after the gradient Push was
\* issued, whether or not that Push has completed.
ContainerReleasedByPullCallback ==
  \A b \in BagToSet(batches) :
    /\ Occurrences(b.log, "new data") = 1
    /\ Occurrences(b.log, "delete data") = (IF b.st = "ret" THEN 1 ELSE 0)
    /\ Before(b.log, "Evaluate", "delete data")
    /\ b.type # kTraining => Before(b.log, "complete", "delete data")
    /\ b.type = kTraining =>
         /\ Before(b.log, "CalcGrad", "delete data")
         /\ Before(b.log, "Push", "delete data")

\* A training batch's container has been released while its gradient Push
\* is still in flight and its completion has not run; a second batch has
\* completed.
ContainerReleasedByPullCallbackWitness ==
  /\ \E b \in BagToSet(batches) :
       /\ b.type = kTraining
       /\ Occurrences(b.log, "delete data") = 1
       /\ b.push = "flight"
       /\ b.fired = 0
  /\ \E b \in BagToSet(batches) : b.fired = 1

\* C19: no two pull continuations are between their InitData and the end of
\* their Evaluate / CalcGrad / Predict on the shared loss object at once.
LossExclusive ==
  \A b1, b2 \in BagToSet(batches) :
    (b1.st = "init" /\ b2.st = "init") =>
      (b1 = b2 /\ CopiesIn(b1, batches) = 1)

\* how often the buffer was freed: by a delete or by the store's release
Frees(b, buf) ==
  Occurrences(b.log, "delete " \o buf) + Occurrences(b.log, "release " \o buf)

\* C20: each of a batch's three heap buffers is made once and freed at most
\* once; the container is deleted by the pull callback; val and val_siz are
\* handed to the gradient Push on the training path (never deleted there)
\* and deleted by the pull callback on the other paths; and when the batch's
\* Pull and Push have both completed each buffer has been freed once.
BuffersReleasedOnce ==
  \A b \in BagToSet(batches) :
    /\ \A buf \in {"data", "val", "val_siz"} :
         /\ Occurrences(b.log, "new " \o buf) = 1
         /\ Frees(b, buf) <= 1
         /\ Quiescent(b) => Frees(b, buf) = 1
    /\ Occurrences(b.log, "release data") = 0
    /\ \A buf \in {"val", "val_siz"} :
         /\ b.type = kTraining =>
              /\ Occurrences(b.log, "delete " \o buf) = 0
              /\ Before(b.log, "Push", "release " \o buf)
         /\ b.type # kTraining =>
              /\ Occurrences(b.log, "release " \o buf) = 0
              /\ Occurrences(b.log, "delete " \o buf) = (IF b.st = "ret" THEN 1 ELSE 0)

\* ProcessFile has returned with a training batch and nothing is left
\* allocated: the store released val, the pull callback deleted the container.
BuffersReleasedOnceWitness ==
  /\ pc = "done"
  /\ job.type = kTraining
  /\ nread = 2
  /\ \A b \in BagToSet(batches) :
       /\ Quiescent(b)
       /\ Frees(b, "val") = 1
       /\ Frees(b, "data") = 1
       /\ Occurrences(b.log, "release val") = 1

\* the steps of the ProcessFile thread: Streaming ("next"), Compacting
\* ("compact", "wait"), Enqueued ("throttle", "add"), Draining ("drain"),
\* Done ("done")
PhaseOrder ==
  \/ pc = "process"  /\ pc' \in {"next", "done"}
  \/ pc = "next"     /\ pc' \in {"compact", "drain"}
  \/ pc = "compact"  /\ pc' \in {"wait", "throttle"}
  \/ pc = "wait"     /\ pc' = "throttle"
  \/ pc = "throttle" /\ pc' = "add"
  \/ pc = "add"      /\ pc' = "next"
  \/ pc = "drain"    /\ pc' = "done"
  \/ pc' = pc

\* C18: ProcessFile goes Streaming -> (per batch: Compacting -> Enqueued)
\* -> Draining -> Done and in no other order; the reader's exhaustion leads
\* to Draining and from there to Done only; and ProcessFile eventually
\* reaches Done.  Since Done is only reached from a held-back batch by way
\* of its admission, the backpressure loop always eventually admits the
\* batch it holds back.
ProcessFileTerminates ==
  /\ [][PhaseOrder]_vars
  /\ [](eof => pc \in {"drain", "done"})
  /\ <>(pc = "done")

\* ProcessFile has returned after MaxBatches batches, so the backpressure
\* loop has held some of them back on the way.
ProcessFileTerminatesWitness ==
  /\ pc = "done"
  /\ eof
  /\ nread = MaxBatches
  /\ remains = 0

(***************************************************************************)
(* Properties of RunScheduler (checked under SpecSched and FairSched).     *)
(***************************************************************************)
\* the place of a kind of job in the run: load, predict, then train e,
\* validate e for e = 0, 1, ...
Rank(k) ==
  CASE k.type = kLoadModel  -> 0
    [] k.type = kPrediction -> 1
    [] k.type = kTraining   -> 2 + 2 * k.epoch
    [] k.type = kValidation -> 3 + 2 * k.epoch
    [] OTHER                -> -1

\* C7: every Add is made with nothing outstanding, the Adds come in the
\* order load, prediction, then training e and validation e for each
\* e < max_num_epochs, training e is added only after the epoch callbacks
\* have run e times, and the jobs outstanding are all of one (epoch, type).
PhaseBarriers ==
  /\ \A i \in 1..Len(addLog) :
       /\ addLog[i].before = 0
       /\ Cardinality(addLog[i].keys) = 1
       /\ \A k \in addLog[i].keys :
            /\ Rank(k) >= 0
            /\ k.type = kLoadModel => i = 1 /\ param.model_in
            /\ k.type \in {kTraining, kValidation} =>
                 /\ k.epoch < param.max_num_epochs
                 /\ addLog[i].cbs = k.epoch
            /\ \A h \in 1..(i - 1) : \A g \in addLog[h].keys : Rank(g) < Rank(k)
  /\ Cardinality(BagToSet(jobs)) <= 1
  /\ jobs # EmptyBag => BagToSet(jobs) \subseteq addLog[Len(addLog)].keys

\* Half of the training jobs of epoch 1 are outstanding, after the load job,
\* the prediction epoch and the first training and validation epochs.
PhaseBarriersWitness ==
  /\ spc = "epoch_wait"
  /\ etype = kTraining
  /\ cur_epoch = 1
  /\ Len(addLog) = 5
  /\ JobNumRemains = 50

FileEntries == {i \in 1..Len(addLog) : \E k \in addLog[i].keys : k.type \in FileJobTypes}

TrainEntries == {i \in 1..Len(addLog) : \E k \in addLog[i].keys : k.type = kTraining}

\* C8: RunEpoch adds the 100 jobs with part_idx 0..99 together; with every
\* job's consumer finishing, the count reaches 0, the wait loop exits, and
\* RunScheduler ends after max_num_epochs rounds (or at the fatal CHECK of
\* a predict task without model_in).
DriverTerminates ==
  /\ [](\A i \in FileEntries :
          addLog[i].njobs = 100 /\ addLog[i].parts = 0..99)
  /\ (spc = "epoch_wait") ~> (spc = "epoch_wait" /\ JobNumRemains = 0)
  /\ (spc = "epoch_wait") ~> (spc # "epoch_wait")
  /\ <>[](\/ spc = "fatal" /\ param.predict /\ ~param.model_in
          \/ /\ spc = "done"
             /\ cur_epoch = param.max_num_epochs
             /\ param.data_in => Cardinality(TrainEntries) = param.max_num_epochs)

\* The run has ended after two training and two validation epochs.
DriverTerminatesWitness ==
  /\ spc = "done"
  /\ cur_epoch = 2
  /\ Len(addLog) = 4
  /\ JobNumRemains = 0
  /\ tick = EpochTick

PredictionRan == \E i \in 1..Len(addLog) : \E k \in addLog[i].keys : k.type = kPrediction

\* C9, as claimed: the continuation callbacks run after every Sleep of every
\* wait loop, the load-model wait included, and the epoch callbacks have run
\* after every epoch, the prediction epoch included.
CallbacksEverywhere ==
  /\ tick.loop # "none" => tick.cont
  /\ spc \in {"loop", "done"} =>
       epochCbs = cur_epoch + (IF PredictionRan THEN 1 ELSE 0)

\* C9, amended: the continuation callbacks run after every Sleep of
\* RunEpoch's wait loop and not in the load-model wait; the epoch callbacks
\* run once after each training/validation round and not after the
\* prediction epoch.
CallbacksWhereCoded ==
  /\ tick.loop = "epoch" => tick.cont
  /\ tick.loop = "load" => ~tick.cont
  /\ spc \in {"loop", "done"} => epochCbs = cur_epoch
  /\ spc \in {"start", "load_wait", "predict"} => epochCbs = 0
  /\ (spc = "epoch_wait" /\ etype = kPrediction) => epochCbs = 0
  /\ epochCbs <= cur_epoch

\* The driver has slept in RunEpoch's loop of a training epoch that follows
\* a prediction epoch and one full round.
CallbacksWhereCodedWitness ==
  /\ tick = EpochTick
  /\ spc = "epoch_wait"
  /\ etype = kTraining
  /\ PredictionRan
  /\ epochCbs = 1
  /\ JobNumRemains > 0

(***************************************************************************)
(* Properties of SpMM (checked under SpecMM).                              *)
(***************************************************************************)
RECURSIVE SumOver(_, _, _, _, _)
\* sum over the nonzeros lo..hi-1 of value * x[index][k]
SumOver(Dm, xv, lo, hi, at) ==
  IF lo >= hi THEN 0
  ELSE (IF Dm.has_value THEN Dm.value[lo + 1] ELSE 1) * xv[Dm.index[lo + 1] * at[1] + at[2] + 1]
       + SumOver(Dm, xv, lo + 1, hi, at)

\* the product D x for block width d, element by element
Product(Dm, xv, d) ==
  [q \in 1..(Dm.size * d) |->
     SumOver(Dm, xv, Dm.offset[(q - 1) \div d + 1], Dm.offset[(q - 1) \div d + 2],
             <<d, (q - 1) % d>>)]

\* C10: for a non-empty x of shape [m, dim] and a pre-allocated y of shape
\* [n, dim], Times leaves y equal to the product D x (0 in the rows without
\* nonzeros), whatever the thread count and whatever y held before.
TimesIsProduct ==
  (op = "Times" /\ mpc = "done" /\ x # <<>> /\ ~y_null
     /\ Len(y) = D.size * (Len(x) \div NumCols)) =>
    /\ D.size > 0 => dim = Len(x) \div NumCols
    /\ y = Product(D, x, Len(x) \div NumCols)

\* The scenario of the specification, with two threads: D = [(0:1),
\* (0:2, 1:3), ()], x = [5, 7], and Times has left y = [5, 31, 0].
TimesIsProductWitness ==
  /\ op = "Times"
  /\ mpc = "done"
  /\ D = RowBlock(<< <<[c |-> 0, v |-> 1]>>,
                     <<[c |-> 0, v |-> 2], [c |-> 1, v |-> 3]>>,
                     <<>> >>, TRUE)
  /\ x = <<5, 7>>
  /\ team = 2
  /\ y = <<5, 31, 0>>

RECURSIVE TransSum(_, _, _, _, _)
\* sum over the nonzeros of the rows i..size-1 that lie in column at[2] of
\* value * x[i][at[3]], for block width at[1]
TransSum(Dm, xv, i, j, at) ==
  IF i >= Dm.size THEN 0
  ELSE IF j >= Dm.offset[i + 2] THEN TransSum(Dm, xv, i + 1, j, at)
  ELSE (IF Dm.index[j + 1] = at[2]
        THEN (IF Dm.has_value THEN Dm.value[j + 1] ELSE 1) * xv[i * at[1] + at[3] + 1]
        ELSE 0)
       + TransSum(Dm, xv, i, j + 1, at)

\* the product D'x for block width d and m columns, element by element
TransProduct(Dm, xv, d, m) ==
  [q \in 1..(m * d) |-> TransSum(Dm, xv, 0, 0, <<d, (q - 1) \div d, (q - 1) % d>>)]

\* x has shape [D.size, d] and y has shape [NumCols, d] for some d >= 1
TransShaped ==
  /\ D.size > 0
  /\ Len(x) >= D.size
  /\ Len(x) = D.size * (Len(x) \div D.size)
  /\ Len(y) = NumCols * (Len(x) \div D.size)

\* the term p * z of the biased form; none when z is absent or p is 0
BiasTerm(q) ==
  IF op = "TransTimesBias" /\ z # <<>> /\ p # 0 THEN p * z[q] ELSE 0

\* C11: for a non-empty x of shape [n, dim] and a pre-allocated y of shape
\* [m, dim], TransTimes leaves y equal to D'x, and the biased form leaves
\* y equal to D'x + p z element by element (D'x alone when z is absent or
\* p is 0), whatever the thread count and whatever y held before.
TransTimesIsProduct ==
  (op \in {"TransTimes", "TransTimesBias"} /\ mpc = "done" /\ ~y_null /\ TransShaped) =>
    /\ dim = Len(x) \div D.size
    /\ y = [q \in 1..Len(y) |->
              TransProduct(D, x, Len(x) \div D.size, NumCols)[q] + BiasTerm(q)]

\* The scenario of the specification, with two threads: D = [(0:1),
\* (0:2, 1:3), ()], x = [1, 1, 0], and TransTimes has left y = [3, 3].
TransTimesIsProductWitness ==
  /\ op = "TransTimes"
  /\ mpc = "done"
  /\ D = ScenarioMatrix
  /\ x = <<1, 1, 0>>
  /\ team = 2
  /\ y = <<3, 3>>

\* C12: a call with an empty x returns at once and leaves every element of
\* y as the caller passed it (not zeroed, not set to p z), for Times and for
\* both forms of TransTimes.
EmptyInputNoOp ==
  (x = <<>> /\ mpc # "call") =>
    /\ mpc = "done"
    /\ y = y0
    /\ wr = <<>>

\* The biased TransTimes has returned for an empty x, a y holding 9 and 8,
\* and a bias 2 z that is not zero.
EmptyInputNoOpWitness ==
  /\ op = "TransTimesBias"
  /\ x = <<>>
  /\ mpc = "done"
  /\ p = 2
  /\ z = <<10, 20>>
  /\ y = <<9, 8>>
  /\ D.size > 0

\* C13: a call that was handed a null y ends in the fatal outcome of the
\* precondition check, for Times and both forms of TransTimes and for every
\* D and x; it neither returns normally nor dereferences the null buffer.
NullOutputIsFatal ==
  (y_null /\ mpc # "call") => mpc = "fatal"

\* the threads of the team whose segment of the columns holds e
Owners(e) ==
  {t \in 0..(team - 1) :
     Owned(SegBegin(TransCols, t, team), SegEnd(TransCols, t, team), e)}

\* C15: in the parallel region no element of y is written by two threads.
\* Times: each row of D is processed by exactly one thread, once.
\* TransTimes: each output block e in [0, y_size/dim) is owned by exactly
\* one thread, and each nonzero of such a column is accumulated exactly
\* once (never twice while the region runs, once when it has ended).
RaceFree ==
  mpc \in {"run", "done"} /\ team > 0 =>
    /\ \A q \in DOMAIN wr : Cardinality(wr[q]) <= 1
    /\ \A u \in DOMAIN acc : acc[u] <= 1
    /\ op = "Times" /\ mpc = "done" => \A i \in DOMAIN acc : acc[i] = 1
    /\ op # "Times" => \A e \in 0..(TransCols - 1) : Cardinality(Owners(e)) = 1
    /\ op # "Times" /\ mpc = "done" =>
         \A j \in DOMAIN acc : D.index[j + 1] < TransCols => acc[j] = 1

\* TransTimes has ended for the scenario's matrix with a team of three:
\* thread 1 wrote block 0, thread 2 wrote block 1, thread 0 owns nothing,
\* and each of the three nonzeros was accumulated once.
RaceFreeWitness ==
  /\ op = "TransTimes"
  /\ mpc = "done"
  /\ D = ScenarioMatrix
  /\ dim = 1
  /\ team = 3
  /\ wr = <<{1}, {2}>>
  /\ \A j \in 0..2 : acc[j] = 1

\* C16: for a non-empty x and a pre-allocated y of any shape, including
\* the shapes whose derived dim is 0 and the matrices with D.size = 0, Times
\* and TransTimes meet no arithmetic fault (no division by zero when dim or
\* y_size/dim is derived).
NoArithmeticFault ==
  (x # <<>> /\ ~y_null) => mpc # "fault"

====
